---- MODULE Spec2Model ----
(***************************************************************************)
(* Model of the lesson content generator of EduNova-BE                     *)
(* (lessons/services/openai_service.py): the lazily initialised client     *)
(* handle, the duration tiers, the response validation and the bounded     *)
(* retry loop of generate_lesson_content.                                  *)
(*                                                                         *)
(* A string is modelled by what the code reads from it: the content text   *)
(* is the sequence of the word counts of its "\n\n"-delimited pieces (a    *)
(* text always has at least one piece; a piece of 0 words is empty or      *)
(* whitespace only), any other string by an identifier.                    *)
(***************************************************************************)
EXTENDS Integers, Sequences, FiniteSets, TLC

\* ------------------------------------------------------------------ bounds
\* generate_lesson_content is called at most MaxCalls times in one process.
MaxCalls == 3
\* the tier is checked for every duration from -2 to MaxDuration minutes.
MaxDuration == 62
\* at most MaxLessons lessons are ever created.
MaxLessons == 2

\* ------------------------------------------------------- program constants
\* range(1, 4): the attempts are numbered 1..MaxAttempts.
MaxAttempts == 3
\* time.sleep(0.6 * attempt), in milliseconds.
BaseDelayMs == 600

VARIABLES
    _client,        \* module global: "None", "False" or "Client"
    api_key,        \* TRUE iff OPENAI_API_KEY is set (non-empty) in the environment
    constructions,  \* how many times OpenAI(api_key=...) was called in this process
    ncalls,         \* how many calls of generate_lesson_content were started
    pc,             \* position of the current call
    duration_minutes, \* argument of the current call
    tier,           \* the locals set at lines 67-88
    attempt,        \* loop variable of the retry loop
    creates,        \* calls of client.chat.completions.create made by the current call
    response,       \* what the last create call produced
    last_error,     \* the local last_error
    sleeps,         \* the delays (ms) slept by the current call, in order
    outcome,        \* how the current call ended
    log,            \* what the loop of the current call logged, in order
    lessons,        \* the Lesson table: primary key -> [user, is_public, slug]
    next_id,        \* the primary key the next created lesson gets
    reply,          \* the last request to the lesson views and its response
    public_served   \* history: the lesson the public view last served, by
                    \* slug, to someone who is not its owner ({}: none yet)

\* The state of the content generator and the state of the lesson views.
gvars == <<_client, api_key, constructions, ncalls, pc, duration_minutes, tier,
           attempt, creates, response, last_error, sleeps, outcome, log>>

lvars == <<lessons, next_id, reply, public_served>>

vars == <<gvars, lvars>>

\* ------------------------------------------------------------ JSON values
\* A decoded JSON value: kind is its Python type after json.loads; pieces is
\* the text of a string (word counts of its "\n\n"-delimited pieces); elems
\* are the elements of a list, each with its own kind.
Str(p)   == [kind |-> "str",  pieces |-> p,    elems |-> <<>>]
Num      == [kind |-> "int",  pieces |-> <<>>, elems |-> <<>>]
Null     == [kind |-> "NoneType", pieces |-> <<>>, elems |-> <<>>]
List(es) == [kind |-> "list", pieces |-> <<>>, elems |-> es]

ElemStr(i) == [kind |-> "str", id |-> i]
ElemInt(i) == [kind |-> "int", id |-> i]

expected_keys == {"description", "content", "activities", "questions", "summary"}

AllKeys == expected_keys \cup {"notes"}

\* A dict as json.loads returns it: a function from its keys to its values.
EmptyDict == [k \in {} |-> Null]

\* The value json.loads returns: a dict (items) or some other JSON value.
Dict(items) == [kind |-> "dict", items |-> items]
NotDict(k)  == [kind |-> k,      items |-> EmptyDict]

\* --------------------------------------------------------- pure functions
\* len(content_text.split()): the words of all pieces.
RECURSIVE SumSeq(_)
SumSeq(s) == IF s = <<>> THEN 0 ELSE Head(s) + SumSeq(Tail(s))

word_count(content_text) == SumSeq(content_text.pieces)

\* len([p for p in content_text.split("\n\n") if p.strip()])
paragraph_count(content_text) ==
    Cardinality({i \in DOMAIN content_text.pieces : content_text.pieces[i] > 0})

\* isinstance(v, list) and all(isinstance(x, str) for x in v)
IsListOfStr(v) ==
    /\ v.kind = "list"
    /\ \A i \in DOMAIN v.elems : v.elems[i].kind = "str"

\* An exception, by its class and its message; NoExc stands for "nothing
\* was raised".
Exc(type, msg) == [type |-> type, msg |-> msg]
NoExc == Exc("none", "")

\* _validate_result with "expected keys all present" for "key set equal".
_validate_result_Superset(result) ==
    IF result.kind # "dict"
        THEN Exc("AttributeError", "object has no attribute keys")
    ELSE IF ~(expected_keys \subseteq DOMAIN result.items)
        THEN Exc("ValueError", "Unexpected keys returned")
    ELSE IF result.items["description"].kind # "str"
        THEN Exc("ValueError", "description must be string")
    ELSE IF result.items["content"].kind # "str"
        THEN Exc("ValueError", "content must be string")
    ELSE IF result.items["summary"].kind # "str"
        THEN Exc("ValueError", "summary must be string")
    ELSE IF ~IsListOfStr(result.items["activities"])
        THEN Exc("ValueError", "activities must be list[str]")
    ELSE IF ~IsListOfStr(result.items["questions"])
        THEN Exc("ValueError", "questions must be list[str]")
    ELSE NoExc

\* _validate_result: NoExc when it returns, else the exception it raises.
\* A value that is not a dict has no keys(): AttributeError.
_validate_result(result) ==
    IF result.kind # "dict"
        THEN Exc("AttributeError", "object has no attribute keys")
    ELSE IF DOMAIN result.items # expected_keys
        THEN Exc("ValueError", "Unexpected keys returned")
    ELSE IF result.items["description"].kind # "str"
        THEN Exc("ValueError", "description must be string")
    ELSE IF result.items["content"].kind # "str"
        THEN Exc("ValueError", "content must be string")
    ELSE IF result.items["summary"].kind # "str"
        THEN Exc("ValueError", "summary must be string")
    ELSE IF ~IsListOfStr(result.items["activities"])
        THEN Exc("ValueError", "activities must be list[str]")
    ELSE IF ~IsListOfStr(result.items["questions"])
        THEN Exc("ValueError", "questions must be list[str]")
    ELSE NoExc

\* TierOf with "<" for "<=" in both comparisons.
TierOf_StrictBoundary(d) ==
    IF d < 30 THEN
        [paragraphs |-> <<4, 5>>, min_words |-> 400, max_tokens |-> 1600,
         activities_count |-> <<5, 7>>, questions_count |-> <<6, 10>>,
         lesson_type |-> "SHORT"]
    ELSE IF d < 60 THEN
        [paragraphs |-> <<7, 9>>, min_words |-> 600, max_tokens |-> 2600,
         activities_count |-> <<6, 8>>, questions_count |-> <<8, 12>>,
         lesson_type |-> "MEDIUM"]
    ELSE
        [paragraphs |-> <<12, 16>>, min_words |-> 800, max_tokens |-> 4200,
         activities_count |-> <<8, 10>>, questions_count |-> <<10, 15>>,
         lesson_type |-> "LONG"]

\* The locals set from duration_minutes (if / elif / else).
TierOf(d) ==
    IF d <= 30 THEN
        [paragraphs |-> <<4, 5>>, min_words |-> 400, max_tokens |-> 1600,
         activities_count |-> <<5, 7>>, questions_count |-> <<6, 10>>,
         lesson_type |-> "SHORT"]
    ELSE IF d <= 60 THEN
        [paragraphs |-> <<7, 9>>, min_words |-> 600, max_tokens |-> 2600,
         activities_count |-> <<6, 8>>, questions_count |-> <<8, 12>>,
         lesson_type |-> "MEDIUM"]
    ELSE
        [paragraphs |-> <<12, 16>>, min_words |-> 800, max_tokens |-> 4200,
         activities_count |-> <<8, 10>>, questions_count |-> <<10, 15>>,
         lesson_type |-> "LONG"]

NoTier == [paragraphs |-> <<0, 0>>, min_words |-> 0, max_tokens |-> 0,
           activities_count |-> <<0, 0>>, questions_count |-> <<0, 0>>,
           lesson_type |-> "unset"]

\* MinLength without the 0.7 tolerance.
MinLength_NoTolerance(min_words) == min_words

\* int(min_words * 0.7).  The double product min_words * 0.7 is exactly
\* 280.0, 420.0 and 560.0 for the three values min_words takes, so the
\* truncation equals the integer quotient.
MinLength(min_words) == (min_words * 7) \div 10

\* TryBody without the minimum-length check.
TryBody_NoLengthCheck(resp, min_words) ==
    IF resp.raises
        THEN Exc("APIError", "create raised")
    ELSE IF resp.finish_reason = "length"
        THEN Exc("ValueError", "Model output truncated (finish_reason=length).")
    ELSE IF resp.raw.text = "empty"
        THEN Exc("ValueError", "Empty response content from model.")
    ELSE IF resp.raw.text = "garbage"
        THEN Exc("JSONDecodeError", "json.loads failed")
    ELSE _validate_result(resp.raw.value)

\* TryBody with the truncation check moved behind the other checks, so that
\* it is reached only when one of them fails.
TryBody_TruncationLast(resp, min_words) ==
    IF resp.raises
        THEN Exc("APIError", "create raised")
    ELSE IF resp.raw.text = "empty"
        THEN Exc("ValueError", "Empty response content from model.")
    ELSE IF resp.raw.text = "garbage"
        THEN IF resp.finish_reason = "length"
             THEN Exc("ValueError", "Model output truncated (finish_reason=length).")
             ELSE Exc("JSONDecodeError", "json.loads failed")
    ELSE IF _validate_result(resp.raw.value) # NoExc
        THEN _validate_result(resp.raw.value)
    ELSE IF word_count(resp.raw.value.items["content"]) < MinLength(min_words)
        THEN Exc("ValueError", "Content too short")
    ELSE NoExc

\* TryBody with the paragraph check made a hard check: fewer than 3
\* non-blank paragraphs raise.
TryBody_HardParagraphCheck(resp, min_words) ==
    IF resp.raises
        THEN Exc("APIError", "create raised")
    ELSE IF resp.finish_reason = "length"
        THEN Exc("ValueError", "Model output truncated (finish_reason=length).")
    ELSE IF resp.raw.text = "empty"
        THEN Exc("ValueError", "Empty response content from model.")
    ELSE IF resp.raw.text = "garbage"
        THEN Exc("JSONDecodeError", "json.loads failed")
    ELSE IF _validate_result(resp.raw.value) # NoExc
        THEN _validate_result(resp.raw.value)
    ELSE IF word_count(resp.raw.value.items["content"]) < MinLength(min_words)
        THEN Exc("ValueError", "Content too short")
    ELSE IF paragraph_count(resp.raw.value.items["content"]) < 3
        THEN Exc("ValueError", "Content has too few paragraphs")
    ELSE NoExc

\* The body of the try block once create has returned or raised: NoExc when
\* it reaches the return statement, else the exception raised in it.
TryBody(resp, min_words) ==
    IF resp.raises
        THEN Exc("APIError", "create raised")
    ELSE IF resp.finish_reason = "length"
        THEN Exc("ValueError", "Model output truncated (finish_reason=length).")
    ELSE IF resp.raw.text = "empty"
        THEN Exc("ValueError", "Empty response content from model.")
    ELSE IF resp.raw.text = "garbage"
        THEN Exc("JSONDecodeError", "json.loads failed")
    ELSE IF _validate_result(resp.raw.value) # NoExc
        THEN _validate_result(resp.raw.value)
    ELSE IF word_count(resp.raw.value.items["content"]) < MinLength(min_words)
        THEN Exc("ValueError", "Content too short")
    ELSE NoExc

\* "except ValueError" for "except Exception".
Catches_ValueErrorOnly(exc) == exc.type = "ValueError"

\* except Exception: the classes the handler of the try block catches.
Catches(exc) ==
    exc.type \in {"APIError", "ValueError", "JSONDecodeError", "AttributeError",
                  "KeyError", "TypeError", "IndexError"}

\* ReturnedBundle with the questions left out (an empty list).
ReturnedBundle_NoQuestions(result) ==
    [k \in {"description", "content", "activities", "questions", "summary"} |->
        IF k = "questions" THEN List(<<>>) ELSE result.items[k]]

\* The dict built by the return statement.
ReturnedBundle(result) ==
    [k \in {"description", "content", "activities", "questions", "summary"} |->
        result.items[k]]

\* get_openai_client that tries again when _client is False.
NewClient_RetryWhenFalse(client, key, ctor_ok) ==
    IF client \in {"None", "False"}
    THEN IF key THEN (IF ctor_ok THEN "Client" ELSE "False") ELSE "False"
    ELSE client

\* get_openai_client: the new value of _client, given the environment and
\* whether the OpenAI constructor succeeds.
NewClient(client, key, ctor_ok) ==
    IF client = "None"
    THEN IF key THEN (IF ctor_ok THEN "Client" ELSE "False") ELSE "False"
    ELSE client

\* "if client is None" on _client itself: False passes for a client.
ClientUsable_NotNone(client) == client # "None"

\* client = get_openai_client() returns None when _client is False;
\* "if not client" then raises.
ClientUsable(client) == client = "Client"

\* last_error = e in the handler of attempt a; None before the first failure.
NoError == [attempt |-> 0, exc |-> NoExc]

\* A handler that keeps the first error.
HandlerError_KeepFirst(prev, a, e) ==
    IF prev = NoError THEN [attempt |-> a, exc |-> e] ELSE prev

HandlerError(prev, a, e) == [attempt |-> a, exc |-> e]

\* range(1, 5).
HasNextAttempt_OneMore(a) == a < MaxAttempts + 1

\* for attempt in range(1, 4): is there another iteration after attempt a?
HasNextAttempt(a) == a < MaxAttempts

\* A constant delay: time.sleep(0.6).
BackoffDelay_Constant(a) == BaseDelayMs

\* time.sleep(0.6 * attempt), in milliseconds.
BackoffDelay(a) == BaseDelayMs * a

\* logger.error(f"Attempt {attempt}/3 failed: {e}")
LogError(a, e) == [level |-> "error", attempt |-> a, exc |-> e, paragraphs |-> 0]

\* The soft check: the warning logged when the content has fewer than 3
\* non-blank paragraphs, nothing otherwise.
SoftCheck(content_text, a) ==
    IF paragraph_count(content_text) < 3
    THEN <<[level |-> "warning", attempt |-> a, exc |-> NoExc,
            paragraphs |-> paragraph_count(content_text)]>>
    ELSE <<>>

\* ------------------------------------------------- the provider's responses
\* What client.chat.completions.create produces: it raises, or it returns a
\* choice with a finish_reason and a message body.  The body, stripped, is
\* empty, or not JSON, or JSON that decodes to value.
Raw(text, value) == [text |-> text, value |-> value]

Response(fr, raw) == [raises |-> FALSE, finish_reason |-> fr, raw |-> raw]

Raises == [raises |-> TRUE, finish_reason |-> "none",
           raw |-> Raw("empty", NotDict("NoneType"))]

NoResponse == [raises |-> FALSE, finish_reason |-> "none",
               raw |-> Raw("empty", NotDict("NoneType"))]

With(d, k, v) == [x \in DOMAIN d \cup {k} |-> IF x = k THEN v ELSE d[x]]

Without(d, k) == [x \in DOMAIN d \ {k} |-> d[x]]

\* Content texts around the three length thresholds, in one or more pieces.
Contents ==
    {Str(<<n>>) : n \in {0, 279, 280, 419, 420, 559, 560, 650}}
    \cup {Str(<<140, 140>>), Str(<<140, 0, 139>>), Str(<<200, 200, 250>>),
          Str(<<300, 0, 300>>)}

GoodList == List(<<ElemStr(1), ElemStr(2)>>)

Conformant(c) ==
    [description |-> Str(<<250>>), content |-> c, activities |-> GoodList,
     questions |-> List(<<ElemStr(3)>>), summary |-> Str(<<60>>)]

Base == Conformant(Str(<<650>>))

Malformed ==
    { With(Base, "notes", Str(<<5>>)),
      Without(Base, "summary"),
      Without(Base, "content"),
      With(Without(Base, "summary"), "notes", Str(<<5>>)),
      EmptyDict,
      With(Base, "description", Null),
      With(Base, "content", Num),
      With(Base, "content", List(<<ElemStr(1)>>)),
      With(Base, "summary", Num),
      With(Base, "activities", List(<<ElemStr(1), ElemInt(7)>>)),
      With(Base, "activities", Str(<<3>>)),
      With(Base, "questions", List(<<ElemInt(7)>>)),
      With(Base, "questions", Null) }

Dicts == {Conformant(c) : c \in Contents}
         \cup {With(Base, "activities", List(<<>>))}
         \cup Malformed

Raws == {Raw("json", Dict(d)) : d \in Dicts}
        \cup {Raw("json", NotDict("list")), Raw("empty", NotDict("NoneType")),
              Raw("garbage", NotDict("NoneType"))}

\* finish_reason is "stop" for a complete body; "length" comes with a body cut
\* off (usually not JSON) but also with bodies that decode.
Responses == {Response("stop", raw) : raw \in Raws}
             \cup {Response("length", raw) :
                     raw \in {Raw("json", Dict(Base)), Raw("garbage", NotDict("NoneType")),
                              Raw("json", Dict(Conformant(Str(<<279>>)))),
                              Raw("empty", NotDict("NoneType"))}}
             \cup {Raises}

\* duration_minutes of the calls of the retry model: the boundaries of the
\* tiers and one duration well inside the first and the last.
Durations == {1, 30, 31, 60, 61, 120}

\* Every decoded dict over the five keys and one more, each field a string, a
\* number, or a list (empty, of strings, or with a number in it).
FieldValues == {Str(<<300>>), Str(<<5>>), Num, List(<<>>), List(<<ElemStr(1)>>),
                List(<<ElemStr(1), ElemInt(2)>>)}

AllDicts == UNION {[ks -> FieldValues] : ks \in SUBSET AllKeys}

AllJsonResponses == {Response("stop", Raw("json", Dict(d))) : d \in AllDicts}

\* ---------------------------------------------------------------- outcomes
NoOutcome == [kind |-> "none", exc |-> NoExc, cause |-> NoError, bundle |-> EmptyDict]

Returned(b) == [kind |-> "returned", exc |-> NoExc, cause |-> NoError, bundle |-> b]

Raised(e, cause) == [kind |-> "raised", exc |-> e, cause |-> cause, bundle |-> EmptyDict]

ConfigurationError == Exc("ValueError", "OpenAI API key not configured.")

ExhaustedError == Exc("Exception", "Failed to generate lesson content after retries")

\* ------------------------------------------------------- the lesson views
\* The requesters: two registered users and a client without credentials.
Users == {"alice", "bob"}

Requesters == Users \cup {"anonymous"}

\* The slugs lessons get.  The model's save() assigns them; nothing here
\* relies on two lessons having different slugs.
Slugs == {"s1", "s2"}

NoLessons == [id \in {} |-> [user |-> "alice", is_public |-> FALSE, slug |-> "s1"]]

NoReply == [view |-> "none", action |-> "none", requester |-> "anonymous",
            status |-> 0, served |-> {}, target |-> 0, target_user |-> "none",
            slug |-> "none"]

\* IsAuthenticated.has_permission
IsAuthenticated(u) == u \in Users

\* The HTTP method of each action of LessonViewSet.
MethodOf(action) ==
    CASE action \in {"retrieve", "download_pdf", "list"} -> "GET"
      [] action = "update" -> "PUT"
      [] action \in {"partial_update", "toggle_visibility"} -> "PATCH"
      [] action = "destroy" -> "DELETE"
      [] action = "create" -> "POST"

\* permissions.SAFE_METHODS
SAFE_METHODS == {"GET", "HEAD", "OPTIONS"}

\* IsLessonOwner.has_object_permission
IsLessonOwner(method, obj, u) ==
    IF method \in SAFE_METHODS
    THEN obj.is_public \/ obj.user = u
    ELSE obj.user = u

\* LessonViewSet.get_permissions: the actions that add IsLessonOwner.
OwnerActions == {"retrieve", "update", "partial_update", "destroy",
                 "toggle_visibility", "download_pdf"}

\* LessonViewSet.get_queryset with Lesson.objects.all().
OwnerQueryset_All(u) == DOMAIN lessons

\* LessonViewSet.get_queryset: Lesson.objects.filter(user=self.request.user)
OwnerQueryset(u) == {id \in DOMAIN lessons : lessons[id].user = u}

\* LessonPublicView.get_queryset: Lesson.objects.filter(is_public=True)
PublicQueryset == {id \in DOMAIN lessons : lessons[id].is_public}

\* get_object_or_404(Lesson, slug=slug, is_public=True): the rows it finds.
PublicBySlug(slug) == {id \in PublicQueryset : lessons[id].slug = slug}

\* The status of a detail request of LessonViewSet before its handler runs:
\* the permission check of the view, get_object() on the view's queryset,
\* then the object permissions of get_permissions.
DetailStatus(u, action, pk) ==
    IF ~IsAuthenticated(u) THEN 401
    ELSE IF pk \notin OwnerQueryset(u) THEN 404
    ELSE IF action \in OwnerActions /\ ~IsLessonOwner(MethodOf(action), lessons[pk], u)
        THEN 403
    ELSE 200

OwnerReply(action, u, status, served, target, target_user) ==
    [view |-> "owner", action |-> action, requester |-> u, status |-> status,
     served |-> served, target |-> target, target_user |-> target_user,
     slug |-> "none"]

PublicReply(action, u, status, served, slug) ==
    [view |-> "public", action |-> action, requester |-> u, status |-> status,
     served |-> served, target |-> 0, target_user |-> "none", slug |-> slug]

\* A detail request that is refused: nothing is served, nothing changes.
Refused(action, u, status) == OwnerReply(action, u, status, {}, 0, "none")

\* ------------------------------------------------------------------ actions
Init ==
    /\ _client = "None"
    /\ api_key \in BOOLEAN
    /\ constructions = 0
    /\ ncalls = 0
    /\ pc = "idle"
    /\ duration_minutes = 0
    /\ tier = NoTier
    /\ attempt = 0
    /\ creates = 0
    /\ response = NoResponse
    /\ last_error = NoError
    /\ sleeps = <<>>
    /\ outcome = NoOutcome
    /\ log = <<>>
    /\ lessons = NoLessons
    /\ next_id = 1
    /\ reply = NoReply
    /\ public_served = {}

\* The environment sets or unsets OPENAI_API_KEY between two calls.
SetEnv ==
    /\ pc = "idle"
    /\ api_key' = ~api_key
    /\ UNCHANGED <<_client, constructions, ncalls, pc, duration_minutes, tier,
                   attempt, creates, response, last_error, sleeps, outcome, log>>
    /\ UNCHANGED lvars

\* generate_lesson_content up to the loop: get the client, raise when there
\* is none, else set the tier's locals and last_error = None.
Call(d) ==
    /\ pc = "idle"
    /\ ncalls < MaxCalls
    /\ ncalls' = ncalls + 1
    /\ duration_minutes' = d
    /\ \E ctor_ok \in BOOLEAN :
        /\ _client' = NewClient(_client, api_key, ctor_ok)
        /\ constructions' = IF _client = "None" /\ api_key
                            THEN constructions + 1 ELSE constructions
    /\ IF ClientUsable(_client')
       THEN /\ tier' = TierOf(d)
            /\ attempt' = 1
            /\ pc' = "try"
            /\ outcome' = NoOutcome
       ELSE /\ tier' = NoTier
            /\ attempt' = 0
            /\ pc' = "done"
            /\ outcome' = Raised(ConfigurationError, NoError)
    /\ creates' = 0
    /\ response' = NoResponse
    /\ last_error' = NoError
    /\ sleeps' = <<>>
    /\ log' = <<>>
    /\ UNCHANGED api_key
    /\ UNCHANGED lvars

\* One pass through the try block: the create call and the checks, up to the
\* return statement or to "last_error = e" in the handler.
AttemptWith(rs) ==
    /\ pc = "try"
    /\ \E r \in rs :
        LET e == TryBody(r, tier.min_words) IN
        /\ response' = r
        /\ creates' = creates + 1
        /\ IF e = NoExc
           THEN /\ outcome' = Returned(ReturnedBundle(r.raw.value))
                /\ log' = log \o SoftCheck(r.raw.value.items["content"], attempt)
                /\ pc' = "done"
                /\ UNCHANGED last_error
           ELSE IF Catches(e)
           THEN /\ last_error' = HandlerError(last_error, attempt, e)
                /\ log' = Append(log, LogError(attempt, e))
                /\ pc' = "backoff"
                /\ UNCHANGED outcome
           ELSE /\ outcome' = Raised(e, NoError)
                /\ pc' = "done"
                /\ UNCHANGED <<last_error, log>>
    /\ UNCHANGED <<_client, api_key, constructions, ncalls, duration_minutes,
                   tier, attempt, sleeps>>
    /\ UNCHANGED lvars

Attempt == AttemptWith(Responses)

\* The rest of the handler: time.sleep returns, and the loop goes on to the
\* next attempt or ends.
Backoff ==
    /\ pc = "backoff"
    /\ sleeps' = Append(sleeps, BackoffDelay(attempt))
    /\ IF HasNextAttempt(attempt)
       THEN /\ attempt' = attempt + 1
            /\ pc' = "try"
       ELSE /\ pc' = "exhausted"
            /\ UNCHANGED attempt
    /\ UNCHANGED <<_client, api_key, constructions, ncalls, duration_minutes,
                   tier, creates, response, last_error, outcome, log>>
    /\ UNCHANGED lvars

\* raise Exception(f"Failed to generate lesson content after retries: {last_error}")
RaiseExhausted ==
    /\ pc = "exhausted"
    /\ outcome' = Raised(ExhaustedError, last_error)
    /\ pc' = "done"
    /\ UNCHANGED <<_client, api_key, constructions, ncalls, duration_minutes,
                   tier, attempt, creates, response, last_error, sleeps, log>>
    /\ UNCHANGED lvars

\* The caller has the result or the exception; the frame of the call is gone.
Finish ==
    /\ pc = "done"
    /\ pc' = "idle"
    /\ duration_minutes' = 0
    /\ tier' = NoTier
    /\ attempt' = 0
    /\ creates' = 0
    /\ response' = NoResponse
    /\ last_error' = NoError
    /\ sleeps' = <<>>
    /\ outcome' = NoOutcome
    /\ log' = <<>>
    /\ UNCHANGED <<_client, api_key, constructions, ncalls>>
    /\ UNCHANGED lvars

Next ==
    \/ SetEnv
    \/ \E d \in Durations : Call(d)
    \/ Attempt
    \/ Backoff
    \/ RaiseExhausted
    \/ Finish

Spec == Init /\ [][Next]_vars

\* permission_classes of LessonViewSet: every action asks IsAuthenticated
\* before its handler runs; a request that fails it is answered 401.
ViewSetActions == OwnerActions \cup {"list", "create"}

Authenticated == {u \in Requesters : IsAuthenticated(u)}

RefuseUnauthenticated ==
    \E u \in Requesters \ Authenticated, action \in ViewSetActions :
        /\ reply' = Refused(action, u, 401)
        /\ UNCHANGED <<lessons, next_id, public_served, gvars>>

\* POST /lessons/: LessonSerializer.create sets user to the requester;
\* is_public comes from the request, the slug from the model.
CreateLesson ==
    \E u \in Authenticated, pub \in BOOLEAN, slug \in Slugs :
        /\ next_id <= MaxLessons
        /\ lessons' = [id \in DOMAIN lessons \cup {next_id} |->
                         IF id = next_id
                         THEN [user |-> u, is_public |-> pub, slug |-> slug]
                         ELSE lessons[id]]
        /\ next_id' = next_id + 1
        /\ reply' = OwnerReply("create", u, 201, {next_id}, next_id, u)
        /\ UNCHANGED <<public_served, gvars>>

\* GET /lessons/: the lessons of get_queryset.
ListLessons ==
    \E u \in Authenticated :
        /\ reply' = OwnerReply("list", u, 200, OwnerQueryset(u), 0, "none")
        /\ UNCHANGED <<lessons, next_id, public_served, gvars>>

\* GET /lessons/{pk}/
RetrieveLesson ==
    \E u \in Authenticated, pk \in 1..MaxLessons :
        LET st == DetailStatus(u, "retrieve", pk) IN
        /\ reply' = IF st # 200 THEN Refused("retrieve", u, st)
                    ELSE OwnerReply("retrieve", u, 200, {pk}, pk, lessons[pk].user)
        /\ UNCHANGED <<lessons, next_id, public_served, gvars>>

\* GET /lessons/{pk}/pdf/: download_pdf, which answers 500 without the
\* lesson when the PDF cannot be made.
DownloadPdf ==
    \E u \in Authenticated, pk \in 1..MaxLessons, pdf_ok \in BOOLEAN :
        LET st == DetailStatus(u, "download_pdf", pk) IN
        /\ reply' = IF st # 200 THEN Refused("download_pdf", u, st)
                    ELSE IF ~pdf_ok
                         THEN OwnerReply("download_pdf", u, 500, {}, pk, lessons[pk].user)
                    ELSE OwnerReply("download_pdf", u, 200, {pk}, pk, lessons[pk].user)
        /\ UNCHANGED <<lessons, next_id, public_served, gvars>>

\* PUT and PATCH /lessons/{pk}/: user and slug are read-only fields,
\* is_public is taken from the request.
UpdateLesson ==
    \E u \in Authenticated, pk \in 1..MaxLessons,
       action \in {"update", "partial_update"}, pub \in BOOLEAN :
        LET st == DetailStatus(u, action, pk) IN
        /\ IF st # 200
           THEN /\ reply' = Refused(action, u, st)
                /\ UNCHANGED lessons
           ELSE /\ lessons' = [lessons EXCEPT ![pk].is_public = pub]
                /\ reply' = OwnerReply(action, u, 200, {pk}, pk, lessons[pk].user)
        /\ UNCHANGED <<next_id, public_served, gvars>>

\* DELETE /lessons/{pk}/
DestroyLesson ==
    \E u \in Authenticated, pk \in 1..MaxLessons :
        LET st == DetailStatus(u, "destroy", pk) IN
        /\ IF st # 200
           THEN /\ reply' = Refused("destroy", u, st)
                /\ UNCHANGED lessons
           ELSE /\ lessons' = [id \in DOMAIN lessons \ {pk} |-> lessons[id]]
                /\ reply' = OwnerReply("destroy", u, 204, {}, pk, lessons[pk].user)
        /\ UNCHANGED <<next_id, public_served, gvars>>

\* PATCH /lessons/{pk}/visibility/: toggle_visibility.
ToggleVisibility ==
    \E u \in Authenticated, pk \in 1..MaxLessons :
        LET st == DetailStatus(u, "toggle_visibility", pk) IN
        /\ IF st # 200
           THEN /\ reply' = Refused("toggle_visibility", u, st)
                /\ UNCHANGED lessons
           ELSE /\ lessons' = [lessons EXCEPT ![pk].is_public = ~lessons[pk].is_public]
                /\ reply' = OwnerReply("toggle_visibility", u, 200, {pk}, pk,
                                       lessons[pk].user)
        /\ UNCHANGED <<next_id, public_served, gvars>>

\* LessonPublicView.retrieve: get_object_or_404 on slug and is_public; no
\* row is 404, several rows raise MultipleObjectsReturned (a 500).
PublicRetrieve ==
    \E u \in Requesters, slug \in Slugs :
        LET found == PublicBySlug(slug) IN
        /\ reply' = IF found = {} THEN PublicReply("retrieve", u, 404, {}, slug)
                    ELSE IF Cardinality(found) > 1
                         THEN PublicReply("retrieve", u, 500, {}, slug)
                    ELSE PublicReply("retrieve", u, 200, found, slug)
        /\ public_served' =
                IF \E id \in reply'.served : lessons[id].user # u
                THEN reply'.served ELSE public_served
        /\ UNCHANGED <<lessons, next_id, gvars>>

\* LessonPublicView.list (ReadOnlyModelViewSet): the lessons of get_queryset.
PublicList ==
    \E u \in Requesters :
        /\ reply' = PublicReply("list", u, 200, PublicQueryset, "none")
        /\ UNCHANGED <<lessons, next_id, public_served, gvars>>

NextLessons ==
    \/ RefuseUnauthenticated
    \/ CreateLesson
    \/ ListLessons
    \/ RetrieveLesson
    \/ DownloadPdf
    \/ UpdateLesson
    \/ DestroyLesson
    \/ ToggleVisibility
    \/ PublicRetrieve
    \/ PublicList

\* The lesson views do not read the environment of the generator.
InitLessons == Init /\ ~api_key

SpecLessons == InitLessons /\ [][NextLessons]_vars

\* The tier of every duration: calls up to the tier's locals, each abandoned
\* there or ended by the configuration error.
TierCall == \E d \in (0 - 2)..MaxDuration : Call(d)

NextTier ==
    \/ TierCall
    \/ Finish

SpecTier == Init /\ [][NextTier]_vars

\* The checks of one attempt on every decoded dict: the first attempt of one
\* SHORT call, the provider returning any of AllJsonResponses.
ValidateCall == Call(30)

ValidateAttempt == AttemptWith(AllJsonResponses)

NextValidate ==
    \/ ValidateCall
    \/ ValidateAttempt

SpecValidate == Init /\ [][NextValidate]_vars

TypeOK ==
    /\ _client \in {"None", "False", "Client"}
    /\ pc \in {"idle", "try", "backoff", "exhausted", "done"}
    /\ attempt \in 0..3

\* ================================================================== claims
\* What the claims read off a state.
FiveKeys == {"description", "content", "activities", "questions", "summary"}

\* The last attempt made by the current call failed with message msg.
LastAttemptFailedWith(msg) ==
    /\ log # <<>>
    /\ log[Len(log)].level = "error"
    /\ log[Len(log)].attempt = creates
    /\ log[Len(log)].exc.msg = msg

\* The number of error entries in the log of the current call.
ErrorCount == Cardinality({i \in DOMAIN log : log[i].level = "error"})

\* A bundle of the right shape: the five keys, three strings, two lists of
\* strings.
WellShaped(b) ==
    /\ DOMAIN b = FiveKeys
    /\ b["description"].kind = "str"
    /\ b["content"].kind = "str"
    /\ b["summary"].kind = "str"
    /\ b["activities"].kind = "list"
    /\ \A i \in DOMAIN b["activities"].elems : b["activities"].elems[i].kind = "str"
    /\ b["questions"].kind = "list"
    /\ \A i \in DOMAIN b["questions"].elems : b["questions"].elems[i].kind = "str"

\* C1: a call that has ended has returned or raised, and a call that has not
\* ended has done neither; a returned bundle has exactly the five keys with
\* the right types, its content has at least 70% of the tier's minimum word
\* count, and the response it came from was not flagged as truncated.
C1_OnlyValidBundleOrFailure ==
    /\ pc = "done" <=> outcome.kind \in {"returned", "raised"}
    /\ pc # "done" => outcome.kind = "none"
    /\ outcome.kind = "raised" => outcome.bundle = EmptyDict
    /\ outcome.kind = "returned" =>
        /\ WellShaped(outcome.bundle)
        /\ 10 * word_count(outcome.bundle["content"]) >= 7 * tier.min_words
        /\ ~response.raises
        /\ response.finish_reason # "length"

\* A bundle returned on the third attempt whose content is exactly at the
\* length threshold.
C1_Witness ==
    /\ outcome.kind = "returned"
    /\ creates = 3
    /\ 10 * word_count(outcome.bundle["content"]) = 7 * tier.min_words

\* C2: a call never makes a 4th create call; a call that had a client and
\* ended in a failure made exactly 3 create calls, all failed, and the
\* failure is the exhaustion failure carrying the error of attempt 3.
C2_ThreeAttemptsLastCause ==
    /\ creates <= 3
    /\ pc = "exhausted" => creates = 3
    /\ ErrorCount = 3 => pc \in {"backoff", "exhausted", "done"}
    /\ (pc = "done" /\ outcome.kind = "raised" /\ _client = "Client") =>
        /\ creates = 3
        /\ Len(log) = 3
        /\ ErrorCount = 3
        /\ outcome.exc = ExhaustedError
        /\ outcome.cause.attempt = 3
        /\ log[3].attempt = 3
        /\ outcome.cause.exc = log[3].exc

\* Exhaustion after three attempts that failed for three different reasons.
C2_Witness ==
    /\ pc = "done"
    /\ outcome.exc = ExhaustedError
    /\ Len(log) = 3
    /\ log[1].exc # log[3].exc
    /\ log[2].exc # log[3].exc
    /\ log[1].exc # log[2].exc

\* C3: a call that finds no client (the credential was absent when the
\* client was first asked for, or its construction failed) has ended at once
\* with the configuration error: no create call, no attempt, no delay,
\* nothing logged by the loop; and the first call of a process without the
\* credential ends that way in its first step.
C3_NoClientNoCalls ==
    /\ []((pc # "idle" /\ _client # "Client") =>
            /\ pc = "done"
            /\ outcome = Raised(ConfigurationError, NoError)
            /\ creates = 0
            /\ attempt = 0
            /\ sleeps = <<>>
            /\ log = <<>>)
    /\ [][(pc = "idle" /\ _client = "None" /\ ~api_key /\ ncalls' = ncalls + 1) =>
            /\ pc' = "done"
            /\ outcome' = Raised(ConfigurationError, NoError)
            /\ creates' = 0
            /\ constructions' = 0]_vars

\* The first call of a process whose environment has no credential.
C3_Witness ==
    /\ pc = "done"
    /\ ncalls = 1
    /\ ~api_key
    /\ constructions = 0
    /\ _client = "False"
    /\ outcome.exc = ConfigurationError

\* C4: the tier's locals are the table's row for duration_minutes (SHORT up
\* to 30, MEDIUM for 31..60, LONG above 60), and the token budget grows
\* strictly from SHORT to MEDIUM to LONG.
C4_TierOfDuration ==
    pc = "try" =>
        /\ duration_minutes <= 30 =>
            /\ tier.lesson_type = "SHORT"
            /\ tier.paragraphs = <<4, 5>>
            /\ tier.min_words = 400
            /\ tier.activities_count = <<5, 7>>
            /\ tier.questions_count = <<6, 10>>
            /\ tier.max_tokens < TierOf(31).max_tokens
        /\ (duration_minutes >= 31 /\ duration_minutes <= 60) =>
            /\ tier.lesson_type = "MEDIUM"
            /\ tier.paragraphs = <<7, 9>>
            /\ tier.min_words = 600
            /\ tier.activities_count = <<6, 8>>
            /\ tier.questions_count = <<8, 12>>
            /\ TierOf(30).max_tokens < tier.max_tokens
            /\ tier.max_tokens < TierOf(61).max_tokens
        /\ duration_minutes > 60 =>
            /\ tier.lesson_type = "LONG"
            /\ tier.paragraphs = <<12, 16>>
            /\ tier.min_words = 800
            /\ tier.activities_count = <<8, 10>>
            /\ tier.questions_count = <<10, 15>>
            /\ TierOf(60).max_tokens < tier.max_tokens

\* A call of 60 minutes has got the MEDIUM tier.
C4_Witness ==
    /\ pc = "try"
    /\ duration_minutes = 60
    /\ tier.lesson_type = "MEDIUM"

\* C5: an attempt whose response has finish_reason "length" is a failed
\* attempt, logged as truncated, whatever its body; a call all of whose
\* responses were truncated returns nothing and ends, after 3 attempts, in
\* the exhaustion failure.
C5_TruncatedAlwaysFails ==
    /\ (creates > 0 /\ ~response.raises /\ response.finish_reason = "length") =>
        /\ outcome.kind # "returned"
        /\ LastAttemptFailedWith("Model output truncated (finish_reason=length).")
    /\ (creates > 0 /\ Len(log) = creates
        /\ \A i \in DOMAIN log :
              log[i].exc.msg = "Model output truncated (finish_reason=length).") =>
        /\ outcome.kind # "returned"
        /\ pc = "done" => (creates = 3 /\ outcome.exc = ExhaustedError)

\* Three truncated responses, the last with a body that passes every other
\* check, and the call has ended in the exhaustion failure.
C5_Witness ==
    /\ pc = "done"
    /\ outcome.exc = ExhaustedError
    /\ \A i \in 1..3 :
          log[i].exc.msg = "Model output truncated (finish_reason=length)."
    /\ response = Response("length", Raw("json", Dict(Base)))

\* The messages of the exceptions _validate_result raises.
ValidateMessages ==
    {"object has no attribute keys", "Unexpected keys returned",
     "description must be string", "content must be string",
     "summary must be string", "activities must be list[str]",
     "questions must be list[str]"}

\* The last attempt got past _validate_result: it returned, or it failed the
\* length check, which comes after it.
PassedValidate ==
    \/ outcome.kind = "returned"
    \/ LastAttemptFailedWith("Content too short")

\* The last attempt was stopped by _validate_result.
FailedValidate ==
    \E m \in ValidateMessages : LastAttemptFailedWith(m)

\* C6: a decoded dict gets past _validate_result if and only if its key set
\* is exactly the five keys, description, content and summary are strings
\* and activities and questions are lists of strings only; so an extra key,
\* a missing key, a non-string content or a non-string list element each
\* stop it there, whatever the other fields are.
C6_ValidateIffExactShape ==
    creates = 1 =>
        LET d == response.raw.value.items IN
        /\ PassedValidate <=> WellShaped(d)
        /\ FailedValidate <=> ~WellShaped(d)
        /\ (DOMAIN d \ FiveKeys # {}) => FailedValidate
        /\ (FiveKeys \ DOMAIN d # {}) => FailedValidate
        /\ ("content" \in DOMAIN d /\ d["content"].kind # "str") => FailedValidate
        /\ (\E k \in {"activities", "questions"} \cap DOMAIN d :
               \E i \in DOMAIN d[k].elems : d[k].elems[i].kind # "str")
           => FailedValidate

\* A dict with the five fields in order and one key more, stopped by
\* _validate_result.
C6_Witness ==
    /\ creates = 1
    /\ DOMAIN response.raw.value.items = AllKeys
    /\ WellShaped([k \in FiveKeys |-> response.raw.value.items[k]])
    /\ word_count(response.raw.value.items["content"]) = 300
    /\ FailedValidate

\* The last response is complete, decodes to a dict and has the right shape.
LastResponseWellShaped ==
    /\ creates > 0
    /\ ~response.raises
    /\ response.finish_reason # "length"
    /\ response.raw.text = "json"
    /\ response.raw.value.kind = "dict"
    /\ WellShaped(response.raw.value.items)

\* C7: a response that passes the other checks is rejected as too short
\* exactly when the word count of its content is below 70% of the tier's
\* min_words, and returned otherwise; the thresholds are 280, 420 and 560
\* words (279 rejected and 280 accepted for min_words = 400).
C7_MinLengthThreshold ==
    LastResponseWellShaped =>
        LET wc == word_count(response.raw.value.items["content"]) IN
        /\ LastAttemptFailedWith("Content too short") <=> 10 * wc < 7 * tier.min_words
        /\ outcome.kind = "returned" <=> 10 * wc >= 7 * tier.min_words
        /\ tier.min_words = 400 =>
              (LastAttemptFailedWith("Content too short") <=> wc < 280)
        /\ tier.min_words = 600 =>
              (LastAttemptFailedWith("Content too short") <=> wc < 420)
        /\ tier.min_words = 800 =>
              (LastAttemptFailedWith("Content too short") <=> wc < 560)

\* A content of 279 words in three pieces, rejected as too short for a
\* SHORT lesson.
C7_Witness ==
    /\ LastResponseWellShaped
    /\ tier.min_words = 400
    /\ response.raw.value.items["content"] = Str(<<140, 0, 139>>)
    /\ LastAttemptFailedWith("Content too short")

\* C8: an exception leaves generate_lesson_content only as the configuration
\* error or as the exhaustion failure, the latter only after 3 failed
\* attempts; an attempt ends by returning or in the handler, and the handler
\* of attempt k < 3 goes on to attempt k+1.
C8_FailuresCaughtAndRetried ==
    /\ [](outcome.kind = "raised" =>
            /\ outcome.exc \in {ConfigurationError, ExhaustedError}
            /\ outcome.exc = ExhaustedError => (creates = 3 /\ ErrorCount = 3)
            /\ outcome.exc = ConfigurationError => creates = 0)
    /\ [][pc = "try" =>
            \/ pc' = "done" /\ outcome'.kind = "returned"
            \/ pc' = "backoff" /\ ErrorCount' = ErrorCount + 1]_vars
    /\ [][(pc = "backoff" /\ attempt < 3) =>
            (pc' = "try" /\ attempt' = attempt + 1 /\ creates' = creates)]_vars
    /\ [](pc = "try" => creates = attempt - 1)

\* The third attempt is about to be made after a transport error and an
\* undecodable body.
C8_Witness ==
    /\ pc = "try"
    /\ attempt = 3
    /\ log[1].exc.type = "APIError"
    /\ log[2].exc.type = "JSONDecodeError"

\* C9: _client leaves "None" on the first call and never changes after; the
\* constructor runs at most once; and while _client is False every call ends
\* at once in the configuration error with no create call, whatever the
\* environment holds by then.
C9_ClientLifecycle ==
    /\ [][_client # "None" => _client' = _client]_vars
    /\ [][_client' # _client => (pc = "idle" /\ ncalls = 0 /\ ncalls' = 1)]_vars
    /\ [][constructions' # constructions => (_client = "None" /\ constructions = 0)]_vars
    /\ [](constructions <= 1)
    /\ [](_client = "Client" => constructions = 1)
    /\ [](ncalls > 0 <=> _client # "None")
    /\ []((_client = "False" /\ pc # "idle") =>
            /\ pc = "done"
            /\ outcome = Raised(ConfigurationError, NoError)
            /\ creates = 0)

\* The second call of a process that started without the credential, which
\* is set by now: the call has failed again, no client was ever constructed.
C9_Witness ==
    /\ _client = "False"
    /\ api_key
    /\ constructions = 0
    /\ ncalls = 2
    /\ pc = "done"
    /\ outcome.exc = ConfigurationError

\* C10: a returned bundle has the five fields of the response of the attempt
\* that returned it; that attempt is number `creates`, all attempts before
\* it failed, and the call makes no create call after it.
C10_FirstSuccessReturnedUnchanged ==
    /\ [](outcome.kind = "returned" =>
            /\ pc = "done"
            /\ LastResponseWellShaped
            /\ DOMAIN outcome.bundle = FiveKeys
            /\ \A k \in FiveKeys : outcome.bundle[k] = response.raw.value.items[k]
            /\ creates = attempt
            /\ ErrorCount = creates - 1
            /\ \A i \in 1..(creates - 1) : log[i] = LogError(i, log[i].exc))
    /\ [][outcome.kind = "returned" => (pc' = "idle" /\ creates' = 0)]_vars

\* A bundle returned by the third attempt, after two failures.
C10_Witness ==
    /\ outcome.kind = "returned"
    /\ creates = 3
    /\ ErrorCount = 2
    /\ outcome.bundle = Conformant(Str(<<200, 200, 250>>))

\* The warning entries in the log of the current call.
Warnings == {i \in DOMAIN log : log[i].level = "warning"}

\* C11: a response that passes the truncation, parse, key, type and length
\* checks is returned by the attempt that received it, whatever its paragraph
\* count: no error is recorded, no delay follows, and a content of fewer
\* than 3 non-blank paragraphs leaves exactly one warning, the last entry of
\* the log, and nothing else; with 3 or more there is no warning.
C11_SoftParagraphCheck ==
    /\ Cardinality(Warnings) <= 1
    /\ Warnings # {} => outcome.kind = "returned"
    /\ (LastResponseWellShaped
        /\ 10 * word_count(response.raw.value.items["content"]) >= 7 * tier.min_words) =>
        LET content == response.raw.value.items["content"]
            n == Cardinality({i \in DOMAIN content.pieces : content.pieces[i] > 0})
        IN
        /\ pc = "done"
        /\ outcome.kind = "returned"
        /\ outcome.bundle["content"] = content
        /\ creates = attempt
        /\ last_error.attempt # creates
        /\ ErrorCount = creates - 1
        /\ Len(sleeps) = creates - 1
        /\ n < 3 =>
            /\ Len(log) = creates
            /\ log[Len(log)] = [level |-> "warning", attempt |-> creates,
                                exc |-> NoExc, paragraphs |-> n]
        /\ n >= 3 =>
            /\ Len(log) = creates - 1
            /\ Warnings = {}

\* A content of 600 words in two non-blank paragraphs, returned by the first
\* attempt with a warning.
C11_Witness ==
    /\ outcome.kind = "returned"
    /\ creates = 1
    /\ outcome.bundle["content"] = Str(<<300, 0, 300>>)
    /\ Len(log) = 1
    /\ log[1].level = "warning"
    /\ log[1].paragraphs = 2

\* C12: the k-th delay of a call is k times the base delay and follows the
\* k-th failed attempt: attempt k+1 starts only after k delays, the handler
\* of attempt k sleeps k * BaseDelayMs before anything else happens, and a
\* returned call has slept only after its failed attempts.
C12_LinearBackoff ==
    /\ [](\A i \in DOMAIN sleeps : sleeps[i] = i * BaseDelayMs)
    /\ [](pc = "try" => (Len(sleeps) = attempt - 1 /\ ErrorCount = attempt - 1))
    /\ [](pc = "backoff" => (Len(sleeps) = attempt - 1 /\ ErrorCount = attempt))
    /\ [](pc = "exhausted" => Len(sleeps) = 3)
    /\ [](outcome.kind = "returned" => Len(sleeps) = creates - 1)
    /\ [][pc = "backoff" =>
            /\ sleeps' = Append(sleeps, attempt * BaseDelayMs)
            /\ creates' = creates]_vars
    /\ [][(pc = "try" /\ pc' = "done") => sleeps' = sleeps]_vars
    /\ [][creates' = creates + 1 => Len(sleeps) = creates]_vars

\* The third attempt is about to start, after delays of 600 and 1200 ms.
C12_Witness ==
    /\ pc = "try"
    /\ attempt = 3
    /\ sleeps = <<600, 1200>>

\* C13: every lesson a reply serves exists and is the requester's own (the
\* views of LessonViewSet) or is public when it is served (the public
\* view); the owner endpoints act only on a lesson of the requester; a
\* public retrieve of a slug no public lesson has answers 404; and a lesson
\* is changed or deleted only by a request of its owner, who alone can
\* change is_public, while user and slug never change.
C13_OwnerOrPublicOnly ==
    /\ [](\A id \in reply.served :
            /\ id \in DOMAIN lessons
            /\ \/ reply.view = "owner" /\ lessons[id].user = reply.requester
               \/ reply.view = "public" /\ lessons[id].is_public)
    /\ [](\A id \in reply.served :
            (lessons[id].user # reply.requester) =>
                (lessons[id].is_public /\ reply.view = "public"))
    /\ []((reply.view = "owner" /\ reply.target # 0) =>
            reply.target_user = reply.requester)
    /\ []((reply.view = "public" /\ reply.action = "retrieve"
           /\ ~(\E id \in DOMAIN lessons :
                   lessons[id].slug = reply.slug /\ lessons[id].is_public)) =>
            (reply.status = 404 /\ reply.served = {}))
    /\ [][\A id \in DOMAIN lessons :
            (id \notin DOMAIN lessons' \/ lessons'[id] # lessons[id]) =>
                /\ reply'.view = "owner"
                /\ reply'.requester = lessons[id].user
                /\ reply'.target = id
                /\ reply'.action \in {"update", "partial_update", "destroy",
                                      "toggle_visibility"}]_vars
    /\ [][\A id \in DOMAIN lessons \cap DOMAIN lessons' :
            /\ lessons'[id].user = lessons[id].user
            /\ lessons'[id].slug = lessons[id].slug]_vars

\* Bob's lesson, which the public view has served before, is private again,
\* and Alice's public retrieve of its slug has just been answered 404.
C13_Witness ==
    /\ reply.view = "public"
    /\ reply.action = "retrieve"
    /\ reply.requester = "alice"
    /\ reply.status = 404
    /\ \E id \in DOMAIN lessons :
        /\ id \in public_served
        /\ lessons[id].user = "bob"
        /\ lessons[id].slug = reply.slug
        /\ ~lessons[id].is_public

====
